---------------------------- MODULE Spec2Model ----------------------------
(***************************************************************************)
(* nomcode: a GitHub-App pull-request reviewer.                            *)
(*                                                                         *)
(*   main.py          the webhook ingress (FastAPI handler handle_webhook) *)
(*   github_utils.py  GithubAuthHelper (token exchange), validate_signature*)
(*   tasks.py         the Celery worker: analyze_pr_task/_analyze_pr_async *)
(*                                                                         *)
(* The specifications share the module's variables:                        *)
(*   SpecVerifier the two validate_signature functions applied to inputs;  *)
(*   SpecIngress  one webhook request at a time through handle_webhook,    *)
(*                split at its await points;                               *)
(*   SpecBroker   credential requests against a clock;                     *)
(*   SpecWorker   one delivered job at a time through _analyze_pr_async,   *)
(*                split at its await points;                               *)
(*   FairWorker   the same with fewer listings and weak fairness;          *)
(*   SpecCompose  the review composed again from the same findings;        *)
(*   SpecQueue    Celery's delivery, execution and acknowledgement of      *)
(*                analyze_pr_task messages, with a worker that may crash;  *)
(*   SpecPool     two workers running _analyze_pr_async at the same time.  *)
(*                                                                         *)
(* External collaborators (GitHub's HTTP API, the analysis agent, the      *)
(* HTTP client) are nondeterministic: every call either returns one of a   *)
(* small set of values or raises.  HMAC-SHA256 is modelled as an ideal     *)
(* keyed hash: two digests are equal exactly when key and message are.     *)
(***************************************************************************)
EXTENDS Integers, Sequences, FiniteSets, TLC

\* ------------------------------------------------------------------ bounds
MaxInst == 2          \* installation ids 1..MaxInst
MaxRequests == 2      \* credential requests (job attempts) in one behaviour
MaxTime == 4          \* the clock runs 0..MaxTime
TokenLifetime == 3    \* lifetime GitHub gives an installation token
SafetyMargin == 1     \* the margin the credential invariant speaks of
MaxFiles == 2         \* changed files listed for one pull request
MaxIssues == 2        \* issues the agent reports for one file
MaxJobs == 2          \* task messages published to the Celery broker
MaxCrashes == 1       \* worker crashes in one behaviour

\* ------------------------------------------------------- values and inputs
\* Shared secrets.  main.py:42 reads WEBHOOK_SECRET with the default
\* "shiv1234"; the environment may also set it to another value or to "".
Secrets == {"", "shiv1234", "other"}

Installations == 1..MaxInst

\* A raw request body, by what json parsing yields from it: not JSON at all,
\* or an object with (or without) an "action" and with (or without) the
\* "pull_request"/"installation" members.
Actions == {"opened", "synchronize", "closed", "none"}
Bodies ==
    [json : {TRUE}, action : Actions, complete : {TRUE}, inst : Installations]
        \cup {[json |-> TRUE, action |-> "opened", complete |-> FALSE, inst |-> 1],
              [json |-> FALSE, action |-> "none", complete |-> FALSE, inst |-> 1]}
NoBody == [json |-> FALSE, action |-> "none", complete |-> FALSE, inst |-> 0]

\* A header value is a sequence of tokens <<kind, text, msg>>:
\*   <<"txt", s, NoBody>>  the literal text s (free of '=')
\*   <<"eq", "", NoBody>>  the character '='
\*   <<"hex", k, m>>       the hex digest of HMAC-SHA256 under key k of m
\* None is the absent header (request.headers.get returns None).
None == <<<<"none", "", NoBody>>>>
Eq == <<"eq", "", NoBody>>
Txt(s) == <<"txt", s, NoBody>>

\* hmac.new(secret.encode(), msg=payload, digestmod=sha256).hexdigest()
hexdigest(secret, payload) == <<"hex", secret, payload>>

\* What the sender writes: '<scheme>=' followed by the digest.
SignedHeader(scheme, secret, payload) ==
    <<Txt(scheme), Eq, hexdigest(secret, payload)>>

\* str.split('='): the maximal '='-free runs of the header, in order (an
\* empty run is the empty sequence).
RECURSIVE SplitFrom(_, _, _)
SplitFrom(h, i, cur) ==
    IF i > Len(h) THEN <<cur>>
    ELSE IF h[i] = Eq THEN <<cur>> \o SplitFrom(h, i + 1, <<>>)
    ELSE SplitFrom(h, i + 1, Append(cur, h[i]))
split(h) == SplitFrom(h, 1, <<>>)

\* `not signature_header`: None or the empty string.
Falsy(h) == h = None \/ h = <<>>

\* Mutant: the digest is never compared.
validate_signature_AnyDigest(payload, signature_header, secret) ==
    IF Falsy(signature_header) THEN "Http403"
    ELSE IF secret = "" THEN "Http500"
    ELSE IF Len(split(signature_header)) # 2 THEN "ValueError"
    ELSE "Ok"

\* github_utils.validate_signature(payload, signature_header, secret): "Ok"
\* when it returns, else what it raises.
validate_signature(payload, signature_header, secret) ==
    IF Falsy(signature_header) THEN "Http403"
    ELSE IF secret = "" THEN "Http500"
    ELSE IF Len(split(signature_header)) # 2 THEN "ValueError"
    ELSE IF split(signature_header)[2] # <<hexdigest(secret, payload)>>
         THEN "Http403"
    ELSE "Ok"

\* The header values a sender can produce: absent, empty, a well-formed
\* '<scheme>=<hex>' under any secret over any body, a bare digest (no scheme
\* prefix), a bare scheme, and a value with a second '='.
Digests == {hexdigest(s, b) : s \in Secrets, b \in Bodies}
Headers ==
    {None, <<>>, <<Txt("sha256")>>, <<Txt("sha256"), Eq>>}
        \cup {<<Txt(sc), Eq, d>> : sc \in {"sha256", "sha1"}, d \in Digests}
        \cup {<<d>> : d \in Digests}
        \cup {<<Txt("sha256"), Eq, d, Eq>> : d \in Digests}

\* ------------------------------------------------------------------- state
VARIABLES
    WEBHOOK_SECRET,  \* main.py:42 / Settings.WEBHOOK_SECRET
    \* --- the signature verifier applied to drawn inputs (SpecVerifier)
    vin,             \* [payload, header] handed to the verifier
    verdict,         \* result of github_utils.validate_signature, or "none"
    verdict_main,    \* result of main.validate_signature, or "none"
    \* --- the ingress, main.handle_webhook (SpecIngress)
    ipc,             \* position in handle_webhook
    req,             \* the request being served: [body, header]
    checked,         \* result of validate_signature for req, or "none"
    parsed,          \* request.json() has run for req
    calls,           \* outbound calls made while serving req
    queue,           \* jobs the ingress put on the Celery broker
    resp,            \* what the webhook caller sees, or "none"
    \* --- the token exchange, GithubAuthHelper (SpecBroker, SpecWorker)
    now,             \* the clock
    exchanges,       \* POSTs made to the access_tokens endpoint
    issued,          \* per installation: expiry of the token last returned
    handed,          \* the last credential request: what it got and did
    \* --- the worker, tasks._analyze_pr_async (SpecWorker)
    wpc,             \* position in _analyze_pr_async
    job,             \* the delivered task's arguments
    token,           \* tasks.py:40
    files,           \* tasks.py:43
    idx,             \* the for loop's position in files (1-based)
    all_issues,      \* tasks.py:45
    files_analyzed,  \* tasks.py:46
    fetched,         \* indexes of files whose content was requested
    analysed,        \* indexes of files handed to review_agent.run
    trail,           \* per visited file, what the loop body logged
    posts,           \* reviews sent to the reviews endpoint, each with its reply
    outcome,         \* how the task ended: "none", "returned", "raised:<at>"
    \* --- the Celery consumer of analyze_pr_task (SpecQueue)
    broker,          \* per task message: "none", "ready", "unacked", "acked"
    running,         \* the message the worker is executing, or 0
    qpc,             \* the consumer's position: "wait", "run", "ack"
    attempts,        \* per task message: times it was delivered
    task_state,      \* per task message: "PENDING", "SUCCESS", "FAILURE"
    crashes,         \* worker crashes so far
    \* --- several workers running _analyze_pr_async at once (SpecPool)
    pool             \* per worker: the locals of its call

ingressVars == <<ipc, req, checked, parsed, calls, queue, resp>>
verifierVars == <<vin, verdict, verdict_main>>
brokerVars == <<now, exchanges, issued, handed>>
workerVars == <<wpc, job, token, files, idx, all_issues, files_analyzed,
                fetched, analysed, trail, posts, outcome>>
queueVars == <<broker, running, qpc, attempts, task_state, crashes>>
poolVars == <<pool>>
vars == <<WEBHOOK_SECRET, verifierVars, ingressVars, brokerVars, workerVars,
          queueVars, poolVars>>

\* main.validate_signature(payload, signature_header), main.py:79-85: the
\* secret is the module global and is not tested for emptiness.
main_validate_signature(payload, signature_header) ==
    IF Falsy(signature_header) THEN "Http403"
    ELSE IF Len(split(signature_header)) # 2 THEN "ValueError"
    ELSE IF split(signature_header)[2] # <<hexdigest(WEBHOOK_SECRET, payload)>>
         THEN "Http403"
    ELSE "Ok"

\* The HTTP status FastAPI answers with when the handler raises: an
\* HTTPException carries its own, anything else is a 500.
StatusOf(raised) ==
    CASE raised = "Http403" -> "403"
      [] raised = "Http500" -> "500"
      [] OTHER -> "500"

NoCalls == [token |-> 0, fetch |-> 0, agent |-> 0, post |-> 0]
NoRequest == [body |-> NoBody, header |-> None]

InitIngress ==
    /\ ipc = "idle"
    /\ req = NoRequest
    /\ checked = "none"
    /\ parsed = FALSE
    /\ calls = NoCalls
    /\ queue = <<>>
    /\ resp = "none"

InitVerifier ==
    /\ vin = NoRequest
    /\ verdict = "none"
    /\ verdict_main = "none"

NoToken == [inst |-> 0, exp |-> 0]
NoJob == [inst |-> 0, pr |-> 0]

InitBroker ==
    /\ now = 0
    /\ exchanges = 0
    /\ issued = [i \in Installations |-> 0]
    /\ handed = [n |-> 0, inst |-> 0, exp |-> 0, at |-> 0]

InitWorker ==
    /\ wpc = "idle"
    /\ job = NoJob
    /\ token = NoToken
    /\ files = <<>>
    /\ idx = 0
    /\ all_issues = <<>>
    /\ files_analyzed = 0
    /\ fetched = <<>>
    /\ analysed = <<>>
    /\ trail = <<>>
    /\ posts = <<>>
    /\ outcome = "none"

Jobs == 1..MaxJobs

InitQueue ==
    /\ broker = [j \in Jobs |-> "none"]
    /\ running = 0
    /\ qpc = "wait"
    /\ attempts = [j \in Jobs |-> 0]
    /\ task_state = [j \in Jobs |-> "PENDING"]
    /\ crashes = 0

Workers == {"w1", "w2"}
\* The locals of one call of _analyze_pr_async, and `own`: what the agent
\* returned to this call, one entry per analysis that succeeded.
NoLocals ==
    [pc |-> "idle", job |-> 0, files |-> <<>>, idx |-> 0, all_issues |-> <<>>,
     files_analyzed |-> 0, review |-> <<>>, own |-> <<>>]

InitPool == pool = [w \in Workers |-> NoLocals]

\* The secret is whatever the environment configured.
Init ==
    /\ WEBHOOK_SECRET \in Secrets
    /\ InitVerifier
    /\ InitIngress
    /\ InitBroker
    /\ InitWorker
    /\ InitQueue
    /\ InitPool

\* The worker side never reads the secret: it is left at main.py:42's default.
InitTasks ==
    /\ WEBHOOK_SECRET = "shiv1234"
    /\ InitVerifier
    /\ InitIngress
    /\ InitBroker
    /\ InitWorker
    /\ InitQueue
    /\ InitPool

\* ---------------------------------------------------- the verifier, applied
verify ==
    /\ verdict = "none"
    /\ \E b \in Bodies, h \in Headers :
          /\ vin' = [body |-> b, header |-> h]
          /\ verdict' = validate_signature(b, h, WEBHOOK_SECRET)
          /\ verdict_main' = main_validate_signature(b, h)
    /\ UNCHANGED <<WEBHOOK_SECRET, queueVars, poolVars, ingressVars,
                   brokerVars, workerVars>>

NextVerifier == verify
SpecVerifier == Init /\ [][NextVerifier]_vars

\* ------------------------------------------------- main.handle_webhook
\* main.py:88-89  payload_bytes = await request.body()
handle_webhook_body ==
    /\ ipc = "idle"
    /\ \E b \in Bodies, h \in Headers : req' = [body |-> b, header |-> h]
    /\ ipc' = "validate"
    /\ checked' = "none"
    /\ parsed' = FALSE
    /\ calls' = NoCalls
    /\ resp' = "none"
    /\ UNCHANGED <<WEBHOOK_SECRET, queueVars, poolVars, verifierVars,
                   brokerVars, workerVars, queue>>

\* Mutant: the handler goes on whatever the verifier said.
handle_webhook_validate_Unheeded ==
    /\ ipc = "validate"
    /\ checked' = main_validate_signature(req.body, req.header)
    /\ ipc' = "json"
    /\ UNCHANGED <<WEBHOOK_SECRET, queueVars, poolVars, verifierVars,
                   brokerVars, workerVars, req, parsed, calls, queue, resp>>

\* main.py:90  validate_signature(payload_bytes, headers.get(...))
handle_webhook_validate ==
    /\ ipc = "validate"
    /\ checked' = main_validate_signature(req.body, req.header)
    /\ IF checked' = "Ok"
       THEN ipc' = "json" /\ resp' = resp
       ELSE ipc' = "done" /\ resp' = StatusOf(checked')
    /\ UNCHANGED <<WEBHOOK_SECRET, queueVars, poolVars, verifierVars,
                   brokerVars, workerVars, req, parsed, calls, queue>>

\* Mutant: no action filter.
handle_webhook_json_NoFilter ==
    /\ ipc = "json"
    /\ parsed' = TRUE
    /\ IF ~req.body.json \/ ~req.body.complete
       THEN ipc' = "done" /\ resp' = "500"
       ELSE ipc' = "token" /\ resp' = resp
    /\ UNCHANGED <<WEBHOOK_SECRET, queueVars, poolVars, verifierVars,
                   brokerVars, workerVars, req, checked, calls, queue>>

\* main.py:91-95  payload = await request.json(); the action filter; the
\* subscripts payload["pull_request"], payload["installation"]["id"].
handle_webhook_json ==
    /\ ipc = "json"
    /\ parsed' = TRUE
    /\ IF ~req.body.json
       THEN ipc' = "done" /\ resp' = "500"
       ELSE IF req.body.action \in {"opened", "synchronize"}
       THEN IF req.body.complete
            THEN ipc' = "token" /\ resp' = resp
            ELSE ipc' = "done" /\ resp' = "500"
       ELSE ipc' = "done" /\ resp' = "ignored"
    /\ UNCHANGED <<WEBHOOK_SECRET, queueVars, poolVars, verifierVars,
                   brokerVars, workerVars, req, checked, calls, queue>>

\* main.py:100  token = await auth_helper.get_installation_token(...)
\* (main.py:63-75: no raise_for_status; an error reply has no "token").
handle_webhook_token ==
    /\ ipc = "token"
    /\ calls' = [calls EXCEPT !.token = @ + 1]
    /\ \E ok \in BOOLEAN :
          IF ok THEN ipc' = "diff" /\ resp' = resp
          ELSE ipc' = "done" /\ resp' = "500"
    /\ UNCHANGED <<WEBHOOK_SECRET, queueVars, poolVars, verifierVars,
                   brokerVars, workerVars, req, checked, parsed, queue>>

\* main.py:103-108  the diff fetch; the reply's status is not looked at.
handle_webhook_diff ==
    /\ ipc = "diff"
    /\ calls' = [calls EXCEPT !.fetch = @ + 1]
    /\ \E ok \in BOOLEAN :
          IF ok THEN ipc' = "agent" /\ resp' = resp
          ELSE ipc' = "done" /\ resp' = "500"
    /\ UNCHANGED <<WEBHOOK_SECRET, queueVars, poolVars, verifierVars,
                   brokerVars, workerVars, req, checked, parsed, queue>>

\* main.py:110-148  review_agent.run and the comment building, in a try.
handle_webhook_agent ==
    /\ ipc = "agent"
    /\ calls' = [calls EXCEPT !.agent = @ + 1]
    /\ \E ok \in BOOLEAN :
          IF ok THEN ipc' = "post" /\ resp' = resp
          ELSE ipc' = "done" /\ resp' = "ai_failed"
    /\ UNCHANGED <<WEBHOOK_SECRET, queueVars, poolVars, verifierVars,
                   brokerVars, workerVars, req, checked, parsed, queue>>

\* main.py:153-166  the review post, then {"status": "success"}.
handle_webhook_post ==
    /\ ipc = "post"
    /\ calls' = [calls EXCEPT !.post = @ + 1]
    /\ ipc' = "done"
    /\ \E ok \in BOOLEAN : resp' = IF ok THEN "success" ELSE "500"
    /\ UNCHANGED <<WEBHOOK_SECRET, queueVars, poolVars, verifierVars,
                   brokerVars, workerVars, req, checked, parsed, queue>>

\* The response is sent and the request's locals are gone; the handler
\* serves the next request.
handle_webhook_return ==
    /\ ipc = "done"
    /\ ipc' = "idle"
    /\ req' = NoRequest
    /\ checked' = "none"
    /\ parsed' = FALSE
    /\ calls' = NoCalls
    /\ resp' = "none"
    /\ UNCHANGED <<WEBHOOK_SECRET, queueVars, poolVars, verifierVars,
                   brokerVars, workerVars, queue>>

NextIngress ==
    \/ handle_webhook_body
    \/ handle_webhook_validate
    \/ handle_webhook_json
    \/ handle_webhook_token
    \/ handle_webhook_diff
    \/ handle_webhook_agent
    \/ handle_webhook_post
    \/ handle_webhook_return
SpecIngress == Init /\ [][NextIngress]_vars

\* ------------------------------------- GithubAuthHelper.get_installation_token
\* github_utils.py:26-39: mint a JWT, POST to the access_tokens endpoint,
\* raise_for_status, return the reply's token.  Nothing is kept between
\* calls.  ok is the endpoint's answer (2xx or not); the token GitHub
\* returns expires TokenLifetime from now.  `handed` records what the caller
\* got (exp = 0: the call raised).
get_installation_token(installation_id, ok) ==
    /\ exchanges' = exchanges + 1
    /\ issued' = IF ok THEN [issued EXCEPT ![installation_id] = now + TokenLifetime]
                 ELSE issued
    /\ handed' = [n |-> handed.n + 1, inst |-> installation_id,
                  exp |-> IF ok THEN now + TokenLifetime ELSE 0, at |-> now]

\* tasks.py:40, one job attempt after another asking for its credential.
credential_request ==
    /\ handed.n < MaxRequests
    /\ \E i \in Installations, ok \in BOOLEAN : get_installation_token(i, ok)
    /\ UNCHANGED <<now, WEBHOOK_SECRET, queueVars, poolVars, verifierVars,
                   ingressVars, workerVars>>

tick ==
    /\ now < MaxTime
    /\ now' = now + 1
    /\ UNCHANGED <<exchanges, issued, handed, WEBHOOK_SECRET, queueVars,
                   poolVars, verifierVars, ingressVars, workerVars>>

NextBroker == credential_request \/ tick
SpecBroker == InitTasks /\ [][NextBroker]_vars

\* --------------------------------------------------- tasks._analyze_pr_async
\* File names are sequences of characters.
app_py == <<"a", "p", "p", ".", "p", "y">>
b_tsx == <<"b", ".", "t", "s", "x">>
d_pyc == <<"d", ".", "p", "y", "c">>
py == <<"p", "y">>
FileNames == {app_py, b_tsx, d_pyc, py}
Statuses == {"added", "modified", "removed", "renamed"}

\* What the listing endpoint can answer: up to MaxFiles file descriptors.
FileData == [filename : FileNames, status : Statuses]
FileLists == UNION {[1..n -> FileData] : n \in 0..MaxFiles}

\* schemas.py:6, the issue types the agent is told to use.
IssueTypes == <<"Bug", "Security", "Performance", "Style">>

\* What the agent can answer for a file: up to MaxIssues issues, each a
\* schemas.CodeIssue; the k-th is at line 11 + k of that file.
Issue(filename, k) ==
    [file_path |-> filename,
     line_number |-> 11 + k,
     issue_type |-> IssueTypes[((k - 1) % Len(IssueTypes)) + 1],
     suggestion |-> <<"fix", k>>]
Reviews(filename) ==
    {[k \in 1..n |-> Issue(filename, k)] : n \in 0..MaxIssues}

\* tasks.py:56, the tuple handed to str.endswith.
SourceSuffixes ==
    { <<".", "p", "y">>, <<".", "j", "s">>, <<".", "t", "s">>,
      <<".", "t", "s", "x">>, <<".", "g", "o">>,
      <<".", "j", "a", "v", "a">>, <<".", "c", "p", "p">> }

\* str.endswith(suffix)
endswith(name, suffix) ==
    /\ Len(name) >= Len(suffix)
    /\ SubSeq(name, Len(name) - Len(suffix) + 1, Len(name)) = suffix

\* Mutant: the status is not looked at.
Skipped_AnyStatus(file_data) ==
    ~ \E suffix \in SourceSuffixes : endswith(file_data.filename, suffix)

\* tasks.py:56, the condition under which the loop body `continue`s.
Skipped(file_data) ==
    \/ file_data.status = "removed"
    \/ ~ \E suffix \in SourceSuffixes : endswith(file_data.filename, suffix)

\* tasks.py:166-168: anything raised outside the per-file try blocks is
\* logged and re-raised out of the task.
Raise(at) ==
    /\ wpc' = "done"
    /\ outcome' = at

\* tasks.py:170-176 and 30-37: the broker delivers a task; its arguments
\* are unpacked.
analyze_pr_task ==
    /\ wpc = "idle"
    /\ \E i \in Installations : job' = [inst |-> i, pr |-> 1]
    /\ wpc' = "token"
    /\ UNCHANGED <<token, files, idx, all_issues, files_analyzed, fetched,
                   analysed, trail, posts, outcome, brokerVars,
                   WEBHOOK_SECRET, queueVars, poolVars, verifierVars,
                   ingressVars>>

\* Mutant: the exchange's failure is not raised; the task goes on without a
\* token.
analyze_token_Unchecked ==
    /\ wpc = "token"
    /\ \E ok \in BOOLEAN :
          /\ get_installation_token(job.inst, ok)
          /\ token' = IF ok THEN [inst |-> job.inst, exp |-> now + TokenLifetime]
                      ELSE token
          /\ wpc' = "list"
          /\ outcome' = outcome
    /\ UNCHANGED <<now, job, files, idx, all_issues, files_analyzed, fetched,
                   analysed, trail, posts, WEBHOOK_SECRET, queueVars,
                   poolVars, verifierVars, ingressVars>>

\* tasks.py:40
analyze_token ==
    /\ wpc = "token"
    /\ \E ok \in BOOLEAN :
          /\ get_installation_token(job.inst, ok)
          /\ IF ok
             THEN /\ token' = [inst |-> job.inst, exp |-> now + TokenLifetime]
                  /\ wpc' = "list"
                  /\ outcome' = outcome
             ELSE /\ token' = token
                  /\ Raise("raised:token")
    /\ UNCHANGED <<now, job, files, idx, all_issues, files_analyzed, fetched,
                   analysed, trail, posts, WEBHOOK_SECRET, queueVars,
                   poolVars, verifierVars, ingressVars>>

\* GithubAuthHelper.get_pr_files, called at tasks.py:43, is not among the
\* helper's methods in github_utils.py.  By its contract (listFiles) it
\* returns the ordered sequence of changed files or fails.
get_pr_files ==
    {[ok |-> TRUE, files |-> listing] : listing \in FileLists}
        \cup {[ok |-> FALSE, files |-> <<>>]}

\* GithubAuthHelper.get_file_content, called at tasks.py:64, likewise: by
\* its contract (fetchContent) it returns the text (TRUE) or fails (FALSE).
get_file_content == BOOLEAN

\* tasks.py:43-46: the listing, then the accumulators are created.  A
\* failed listing is outside the per-file try blocks.  answers is what the
\* listing endpoint may answer.
list_try(answers) ==
    /\ wpc = "list"
    /\ \E r \in answers :
          IF r.ok
          THEN /\ files' = r.files
               /\ idx' = 1
               /\ all_issues' = <<>>
               /\ files_analyzed' = 0
               /\ wpc' = "loop"
               /\ outcome' = outcome
          ELSE /\ UNCHANGED <<files, idx, all_issues, files_analyzed>>
               /\ Raise("raised:list")
    /\ UNCHANGED <<job, token, fetched, analysed, trail, posts, brokerVars,
                   WEBHOOK_SECRET, queueVars, poolVars, verifierVars,
                   ingressVars>>

analyze_list == list_try(get_pr_files)

\* Mutant: a skipped file is logged and looked at again.
analyze_filter_NoAdvance ==
    /\ wpc = "loop"
    /\ IF idx > Len(files)
       THEN /\ wpc' = "aggregate"
            /\ UNCHANGED <<idx, trail>>
       ELSE IF Skipped(files[idx])
       THEN /\ idx' = idx
            /\ trail' = Append(trail, "skipped")
            /\ wpc' = wpc
       ELSE /\ wpc' = "fetch"
            /\ UNCHANGED <<idx, trail>>
    /\ UNCHANGED <<job, token, files, all_issues, files_analyzed, fetched,
                   analysed, posts, outcome, brokerVars, WEBHOOK_SECRET,
                   queueVars, poolVars, verifierVars, ingressVars>>

\* tasks.py:49-60: the loop head and the filter.
analyze_filter ==
    /\ wpc = "loop"
    /\ IF idx > Len(files)
       THEN /\ wpc' = "aggregate"
            /\ UNCHANGED <<idx, trail>>
       ELSE IF Skipped(files[idx])
       THEN /\ idx' = idx + 1
            /\ trail' = Append(trail, "skipped")
            /\ wpc' = wpc
       ELSE /\ wpc' = "fetch"
            /\ UNCHANGED <<idx, trail>>
    /\ UNCHANGED <<job, token, files, all_issues, files_analyzed, fetched,
                   analysed, posts, outcome, brokerVars, WEBHOOK_SECRET,
                   queueVars, poolVars, verifierVars, ingressVars>>

\* Mutant: a failed content fetch is not caught.
fetch_try_Uncaught(ok) ==
    IF ok
    THEN /\ wpc' = "agent"
         /\ UNCHANGED <<idx, trail, outcome>>
    ELSE /\ Raise("raised:fetch")
         /\ UNCHANGED <<idx, trail>>

\* tasks.py:63-67: the content fetch in its try block; the except clause logs
\* and continues with the next file.
fetch_try(ok) ==
    IF ok
    THEN /\ wpc' = "agent"
         /\ UNCHANGED <<idx, trail, outcome>>
    ELSE /\ wpc' = "loop"
         /\ idx' = idx + 1
         /\ trail' = Append(trail, "fetch_failed")
         /\ outcome' = outcome

analyze_fetch ==
    /\ wpc = "fetch"
    /\ fetched' = Append(fetched, idx)
    /\ \E ok \in get_file_content : fetch_try(ok)
    /\ UNCHANGED <<job, token, files, all_issues, files_analyzed, analysed,
                   posts, brokerVars, WEBHOOK_SECRET, queueVars, poolVars,
                   verifierVars, ingressVars>>

\* Mutant: only a file with findings counts as analysed.
agent_try_CountFindingFiles(ok, issues) ==
    IF ok
    THEN /\ all_issues' = IF issues # <<>> THEN all_issues \o issues
                          ELSE all_issues
         /\ files_analyzed' = IF issues # <<>> THEN files_analyzed + 1
                              ELSE files_analyzed
         /\ trail' = Append(trail, "analysed")
         /\ wpc' = "loop"
         /\ idx' = idx + 1
         /\ outcome' = outcome
    ELSE /\ wpc' = "loop"
         /\ idx' = idx + 1
         /\ trail' = Append(trail, "analysis_failed")
         /\ UNCHANGED <<all_issues, files_analyzed, outcome>>

\* tasks.py:94-111: review_agent.run in its try block: it returns a review
\* (ok) or raises; the except clause logs and continues with the next file.
agent_try(ok, issues) ==
    IF ok
    THEN /\ all_issues' = IF issues # <<>> THEN all_issues \o issues
                          ELSE all_issues
         /\ files_analyzed' = files_analyzed + 1
         /\ trail' = Append(trail, "analysed")
         /\ wpc' = "loop"
         /\ idx' = idx + 1
         /\ outcome' = outcome
    ELSE /\ wpc' = "loop"
         /\ idx' = idx + 1
         /\ trail' = Append(trail, "analysis_failed")
         /\ UNCHANGED <<all_issues, files_analyzed, outcome>>

analyze_agent ==
    /\ wpc = "agent"
    /\ analysed' = Append(analysed, idx)
    /\ \E ok \in BOOLEAN, issues \in Reviews(files[idx].filename) :
          agent_try(ok, issues)
    /\ UNCHANGED <<job, token, files, fetched, posts, brokerVars,
                   WEBHOOK_SECRET, queueVars, poolVars, verifierVars,
                   ingressVars>>

\* Mutant: the review is posted whatever was found.
analyze_aggregate_AlwaysPost ==
    /\ wpc = "aggregate"
    /\ wpc' = "post"
    /\ UNCHANGED <<job, token, files, idx, all_issues, files_analyzed,
                   fetched, analysed, trail, posts, outcome, brokerVars,
                   WEBHOOK_SECRET, queueVars, poolVars, verifierVars,
                   ingressVars>>

\* tasks.py:113-116: nothing found, nothing posted.
analyze_aggregate ==
    /\ wpc = "aggregate"
    /\ IF all_issues = <<>>
       THEN wpc' = "done" /\ outcome' = "returned"
       ELSE wpc' = "post" /\ outcome' = outcome
    /\ UNCHANGED <<job, token, files, idx, all_issues, files_analyzed,
                   fetched, analysed, trail, posts, brokerVars,
                   WEBHOOK_SECRET, queueVars, poolVars, verifierVars,
                   ingressVars>>

\* tasks.py:127, getattr(issue, 'description', getattr(issue, 'suggestion',
\* 'Issue found')): the first of the two attributes the issue has.
desc(issue) ==
    IF "description" \in DOMAIN issue THEN issue.description
    ELSE IF "suggestion" \in DOMAIN issue THEN issue.suggestion
    ELSE "Issue found"

\* tasks.py:133-138: the inline comment's text, with a suggestion block when
\* the issue has a non-empty proposed_fix.
comment_content(issue) ==
    IF "proposed_fix" \in DOMAIN issue /\ issue.proposed_fix # ""
    THEN <<"**[", issue.issue_type, "]** ", desc(issue),
           "suggestion", issue.proposed_fix>>
    ELSE <<"**[", issue.issue_type, "]** ", desc(issue)>>

\* Mutant: the inline comments are built last finding first.
compose_Reversed ==
    [body |-> [heading |-> "## AI Code Review",
               summary |-> <<"Analyzed ", files_analyzed, " files. Found ",
                             Len(all_issues), " issues.">>,
               bullets |-> [k \in 1..Len(all_issues) |->
                               <<all_issues[k].issue_type,
                                 all_issues[k].file_path,
                                 desc(all_issues[k])>>]],
     event |-> "COMMENT",
     comments |-> [k \in 1..Len(all_issues) |->
                      LET issue == all_issues[Len(all_issues) + 1 - k]
                      IN [path |-> issue.file_path,
                          line |-> issue.line_number,
                          body |-> comment_content(issue)]]]

\* Mutant: the summary carries the time of composition.
compose_Stamped ==
    [body |-> [heading |-> "## AI Code Review",
               summary |-> <<"Analyzed ", files_analyzed, " files. Found ",
                             Len(all_issues), " issues.", now>>,
               bullets |-> [k \in 1..Len(all_issues) |->
                               <<all_issues[k].issue_type,
                                 all_issues[k].file_path,
                                 desc(all_issues[k])>>]],
     event |-> "COMMENT",
     comments |-> [k \in 1..Len(all_issues) |->
                      [path |-> all_issues[k].file_path,
                       line |-> all_issues[k].line_number,
                       body |-> comment_content(all_issues[k])]]]

\* tasks.py:120-157: the review sent: the summary body (heading, the counts
\* line, one bullet per issue), the event, and one inline comment per issue,
\* in the order of all_issues.
compose ==
    [body |-> [heading |-> "## AI Code Review",
               summary |-> <<"Analyzed ", files_analyzed, " files. Found ",
                             Len(all_issues), " issues.">>,
               bullets |-> [k \in 1..Len(all_issues) |->
                               <<all_issues[k].issue_type,
                                 all_issues[k].file_path,
                                 desc(all_issues[k])>>]],
     event |-> "COMMENT",
     comments |-> [k \in 1..Len(all_issues) |->
                      [path |-> all_issues[k].file_path,
                       line |-> all_issues[k].line_number,
                       body |-> comment_content(all_issues[k])]]]

\* What the reviews endpoint can do with the POST: answer with a success
\* status, answer with a status >= 400, or the client raises.
Replies == {"2xx", "4xx", "error"}

\* Mutant: a reply with status >= 400 makes the task send the review again.
analyze_post_Resend ==
    /\ wpc = "post"
    /\ \E reply \in Replies :
          /\ posts' = Append(posts, [payload |-> compose, reply |-> reply])
          /\ IF reply = "error" THEN Raise("raised:post")
             ELSE IF reply = "4xx" THEN wpc' = "post" /\ outcome' = outcome
             ELSE wpc' = "done" /\ outcome' = "returned"
    /\ UNCHANGED <<job, token, files, idx, all_issues, files_analyzed,
                   fetched, analysed, trail, brokerVars, WEBHOOK_SECRET,
                   queueVars, poolVars, verifierVars, ingressVars>>

\* tasks.py:147-164: the one POST to the reviews endpoint.  The client may
\* raise (reply = "error"); a reply with status >= 400 is logged, and the
\* task goes on to its last log line and returns like after a 2xx.
analyze_post ==
    /\ wpc = "post"
    /\ \E reply \in Replies :
          /\ posts' = Append(posts, [payload |-> compose, reply |-> reply])
          /\ IF reply = "error"
             THEN Raise("raised:post")
             ELSE wpc' = "done" /\ outcome' = "returned"
    /\ UNCHANGED <<job, token, files, idx, all_issues, files_analyzed,
                   fetched, analysed, trail, brokerVars, WEBHOOK_SECRET,
                   queueVars, poolVars, verifierVars, ingressVars>>

\* asyncio.run returns or raises into Celery; the attempt's locals are gone
\* and the worker takes the next task.  The helper keeps nothing between
\* calls, so the record of its exchanges starts afresh with the next attempt.
analyze_end ==
    /\ wpc = "done"
    /\ wpc' = "idle"
    /\ job' = NoJob
    /\ token' = NoToken
    /\ files' = <<>>
    /\ idx' = 0
    /\ all_issues' = <<>>
    /\ files_analyzed' = 0
    /\ fetched' = <<>>
    /\ analysed' = <<>>
    /\ trail' = <<>>
    /\ posts' = <<>>
    /\ outcome' = "none"
    /\ exchanges' = 0
    /\ issued' = [i \in Installations |-> 0]
    /\ handed' = [n |-> 0, inst |-> 0, exp |-> 0, at |-> 0]
    /\ UNCHANGED <<now, WEBHOOK_SECRET, queueVars, poolVars, verifierVars,
                   ingressVars>>

NextWorker ==
    \/ analyze_pr_task
    \/ analyze_token
    \/ analyze_list
    \/ analyze_filter
    \/ analyze_fetch
    \/ analyze_agent
    \/ analyze_aggregate
    \/ analyze_post
    \/ analyze_end
SpecWorker == InitTasks /\ [][NextWorker]_vars

\* The listings with one file of each kind the loop tells apart: analysed,
\* skipped for its status, skipped for its extension.
FewListings ==
    {r \in get_pr_files :
        \A i \in 1..Len(r.files) :
            r.files[i] \in {[filename |-> app_py, status |-> "added"],
                            [filename |-> app_py, status |-> "removed"],
                            [filename |-> d_pyc, status |-> "added"]}}

analyze_list_few == list_try(FewListings)

\* The worker runs one task at a time in one thread, and every awaited call
\* returns or raises in the end: a step that can be taken is taken.
NextFair ==
    \/ analyze_pr_task
    \/ analyze_token
    \/ analyze_list_few
    \/ analyze_filter
    \/ analyze_fetch
    \/ analyze_agent
    \/ analyze_aggregate
    \/ analyze_post
    \/ analyze_end
FairWorker == InitTasks /\ [][NextFair]_vars /\ WF_vars(NextFair)

\* ------------------------------------------- the composition, applied twice
\* The states in which tasks.py:120 is reached: every listed file was
\* fetched and analysed, and all_issues holds what the agent returned for
\* them, in order.
RECURSIVE Flatten(_)
Flatten(qq) == IF qq = <<>> THEN <<>> ELSE Head(qq) \o Flatten(Tail(qq))

Analysable == {fd \in FileData : ~Skipped(fd)}

InitCompose ==
    /\ WEBHOOK_SECRET = "shiv1234"
    /\ InitVerifier
    /\ InitIngress
    /\ InitBroker
    /\ InitQueue
    /\ InitPool
    /\ wpc = "post"
    /\ job = [inst |-> 1, pr |-> 1]
    /\ token = [inst |-> 1, exp |-> TokenLifetime]
    /\ \E n \in 1..MaxFiles :
          \E listing \in [1..n -> Analysable] :
              \E found \in [1..n -> UNION {Reviews(fd.filename) : fd \in Analysable}] :
                  /\ \A i \in 1..n : found[i] \in Reviews(listing[i].filename)
                  /\ Flatten(found) # <<>>
                  /\ files = listing
                  /\ idx = n + 1
                  /\ all_issues = Flatten(found)
                  /\ files_analyzed = n
                  /\ fetched = [i \in 1..n |-> i]
                  /\ analysed = [i \in 1..n |-> i]
                  /\ trail = [i \in 1..n |-> "analysed"]
    /\ posts = <<>>
    /\ outcome = "none"

\* tasks.py:120-145 run on the findings and the count at hand; what it
\* built is kept for comparison.
compose_review ==
    /\ Len(posts) < 2
    /\ posts' = Append(posts, [payload |-> compose, reply |-> "2xx"])
    /\ UNCHANGED <<wpc, job, token, files, idx, all_issues, files_analyzed,
                   fetched, analysed, trail, outcome, brokerVars,
                   WEBHOOK_SECRET, queueVars, poolVars, verifierVars,
                   ingressVars>>

NextCompose == compose_review \/ tick
SpecCompose == InitCompose /\ [][NextCompose]_vars

\* ------------------------------------------------- the Celery consumer
\* tasks.py:170, the options of @celery_app.task.  acks_late is set; no
\* autoretry_for, max_retries or retry_backoff is given, the task is not
\* bound, and nothing calls retry().
acks_late_Unset == FALSE
acks_late == TRUE

\* How asyncio.run(_analyze_pr_async(...)) at tasks.py:176 can end: the
\* coroutine returns, or the exception re-raised at tasks.py:168 comes out.
TaskOutcomes == {"returned", "raised:token", "raised:list", "raised:post"}

\* analyze_pr_task.delay(installation_id, pr): a message for the task named
\* at tasks.py:170 is put on the broker.
delay ==
    /\ \E j \in Jobs :
          /\ broker[j] = "none"
          /\ broker' = [broker EXCEPT ![j] = "ready"]
    /\ UNCHANGED <<running, qpc, attempts, task_state, crashes, WEBHOOK_SECRET,
                   verifierVars, ingressVars, brokerVars, workerVars, poolVars>>

\* The worker takes a ready message.  Without acks_late Celery acknowledges
\* it now, before the task runs; with it the message stays unacknowledged.
deliver ==
    /\ qpc = "wait"
    /\ \E j \in Jobs :
          /\ broker[j] = "ready"
          /\ broker' = [broker EXCEPT ![j] = IF acks_late THEN "unacked"
                                             ELSE "acked"]
          /\ running' = j
          /\ attempts' = [attempts EXCEPT ![j] = @ + 1]
    /\ qpc' = "run"
    /\ UNCHANGED <<task_state, crashes, WEBHOOK_SECRET, verifierVars,
                   ingressVars, brokerVars, workerVars, poolVars>>

\* tasks.py:171-176: the task body runs to its end.  A return makes the
\* task SUCCESS.  An exception makes it FAILURE: the task declares no
\* exception to retry for, so the message is not put back for another
\* attempt.
run_task ==
    /\ qpc = "run"
    /\ \E o \in TaskOutcomes :
          task_state' = [task_state EXCEPT ![running] =
                            IF o = "returned" THEN "SUCCESS" ELSE "FAILURE"]
    /\ qpc' = "ack"
    /\ UNCHANGED <<broker, running, attempts, crashes, WEBHOOK_SECRET, verifierVars,
                   ingressVars, brokerVars, workerVars, poolVars>>

\* With acks_late the message is acknowledged once the task has ended,
\* whether it returned or raised.
ack ==
    /\ qpc = "ack"
    /\ broker' = [broker EXCEPT ![running] = "acked"]
    /\ running' = 0
    /\ qpc' = "wait"
    /\ UNCHANGED <<attempts, task_state, crashes, WEBHOOK_SECRET, verifierVars,
                   ingressVars, brokerVars, workerVars, poolVars>>

\* The worker is lost while it holds a message: the broker puts a message
\* it never saw acknowledged back among the ready ones; an acknowledged one
\* is gone.  The restarted worker waits for a message.
crash ==
    /\ qpc \in {"run", "ack"}
    /\ crashes < MaxCrashes
    /\ crashes' = crashes + 1
    /\ broker' = [broker EXCEPT ![running] = IF @ = "unacked" THEN "ready"
                                             ELSE @]
    /\ running' = 0
    /\ qpc' = "wait"
    /\ UNCHANGED <<attempts, task_state, WEBHOOK_SECRET, verifierVars,
                   ingressVars, brokerVars, workerVars, poolVars>>

NextQueue == delay \/ deliver \/ run_task \/ ack \/ crash
SpecQueue == InitTasks /\ [][NextQueue]_vars

\* ------------------------------------------------------ the worker pool
\* Each worker runs _analyze_pr_async on the task it was delivered; the calls
\* interleave at their await points.  files, all_issues and files_analyzed
\* are locals of the call (tasks.py:43-46); the module-level objects
\* (tasks.py:20-23) hold no per-job data.
PoolListings ==
    { <<>>,
      <<[filename |-> b_tsx, status |-> "added"]>>,
      <<[filename |-> app_py, status |-> "modified"],
        [filename |-> d_pyc, status |-> "added"]>>,
      <<[filename |-> b_tsx, status |-> "removed"],
        [filename |-> app_py, status |-> "added"]>> }

\* What the agent can answer to worker w's call for a file: no issue or
\* one, whose text is that call's own.
PoolReviews(w, filename) ==
    { <<>>,
      <<[Issue(filename, 1) EXCEPT !.suggestion = <<"fix", w, pool[w].job>>]>> }

\* tasks.py:170-176 and 30-37, in worker w.  The same task may be with
\* two workers at once: a redelivered copy.
pool_start(w) ==
    /\ pool[w].pc = "idle"
    /\ \E j \in Jobs :
          pool' = [pool EXCEPT ![w] = [NoLocals EXCEPT !.pc = "token", !.job = j]]
    /\ UNCHANGED <<WEBHOOK_SECRET, verifierVars, ingressVars, brokerVars,
                   workerVars, queueVars>>

\* tasks.py:40
pool_token(w) ==
    /\ pool[w].pc = "token"
    /\ \E ok \in BOOLEAN :
          pool' = [pool EXCEPT ![w].pc = IF ok THEN "list" ELSE "done"]
    /\ UNCHANGED <<WEBHOOK_SECRET, verifierVars, ingressVars, brokerVars,
                   workerVars, queueVars>>

\* tasks.py:43-46
pool_list(w) ==
    /\ pool[w].pc = "list"
    /\ \/ \E listing \in PoolListings :
             pool' = [pool EXCEPT ![w].files = listing,
                                  ![w].idx = 1,
                                  ![w].all_issues = <<>>,
                                  ![w].files_analyzed = 0,
                                  ![w].pc = "loop"]
       \/ pool' = [pool EXCEPT ![w].pc = "done"]
    /\ UNCHANGED <<WEBHOOK_SECRET, verifierVars, ingressVars, brokerVars,
                   workerVars, queueVars>>

\* tasks.py:49-60
pool_filter(w) ==
    /\ pool[w].pc = "loop"
    /\ pool' = IF pool[w].idx > Len(pool[w].files)
               THEN [pool EXCEPT ![w].pc = "aggregate"]
               ELSE IF Skipped(pool[w].files[pool[w].idx])
               THEN [pool EXCEPT ![w].idx = @ + 1]
               ELSE [pool EXCEPT ![w].pc = "fetch"]
    /\ UNCHANGED <<WEBHOOK_SECRET, verifierVars, ingressVars, brokerVars,
                   workerVars, queueVars>>

\* tasks.py:63-67
pool_fetch(w) ==
    /\ pool[w].pc = "fetch"
    /\ \E ok \in get_file_content :
          pool' = IF ok THEN [pool EXCEPT ![w].pc = "agent"]
                  ELSE [pool EXCEPT ![w].pc = "loop", ![w].idx = @ + 1]
    /\ UNCHANGED <<WEBHOOK_SECRET, verifierVars, ingressVars, brokerVars,
                   workerVars, queueVars>>

\* Mutant: all_issues is one list for all the calls.
pool_agent_Shared(w) ==
    /\ pool[w].pc = "agent"
    /\ \E ok \in BOOLEAN,
          issues \in PoolReviews(w, pool[w].files[pool[w].idx].filename) :
          pool' = IF ok
                  THEN [v \in Workers |->
                          IF v = w
                          THEN [pool[v] EXCEPT
                                   !.all_issues = @ \o issues,
                                   !.files_analyzed = @ + 1,
                                   !.own = Append(@, issues),
                                   !.pc = "loop",
                                   !.idx = @ + 1]
                          ELSE [pool[v] EXCEPT !.all_issues = @ \o issues]]
                  ELSE [pool EXCEPT ![w].pc = "loop", ![w].idx = @ + 1]
    /\ UNCHANGED <<WEBHOOK_SECRET, verifierVars, ingressVars, brokerVars,
                   workerVars, queueVars>>

\* tasks.py:94-111
pool_agent(w) ==
    /\ pool[w].pc = "agent"
    /\ \E ok \in BOOLEAN,
          issues \in PoolReviews(w, pool[w].files[pool[w].idx].filename) :
          pool' = IF ok
                  THEN [pool EXCEPT
                           ![w].all_issues = IF issues # <<>> THEN @ \o issues
                                             ELSE @,
                           ![w].files_analyzed = @ + 1,
                           ![w].own = Append(@, issues),
                           ![w].pc = "loop",
                           ![w].idx = @ + 1]
                  ELSE [pool EXCEPT ![w].pc = "loop", ![w].idx = @ + 1]
    /\ UNCHANGED <<WEBHOOK_SECRET, verifierVars, ingressVars, brokerVars,
                   workerVars, queueVars>>

\* tasks.py:113-116
pool_aggregate(w) ==
    /\ pool[w].pc = "aggregate"
    /\ pool' = [pool EXCEPT ![w].pc = IF pool[w].all_issues = <<>>
                                      THEN "done" ELSE "post"]
    /\ UNCHANGED <<WEBHOOK_SECRET, verifierVars, ingressVars, brokerVars,
                   workerVars, queueVars>>

\* tasks.py:120-164: the review is composed from this call's locals and
\* sent; of the review, the count and the findings it was built from are
\* kept.
pool_post(w) ==
    /\ pool[w].pc = "post"
    /\ pool' = [pool EXCEPT
                   ![w].review = <<[analyzed |-> pool[w].files_analyzed,
                                    findings |-> pool[w].all_issues]>>,
                   ![w].pc = "done"]
    /\ UNCHANGED <<WEBHOOK_SECRET, verifierVars, ingressVars, brokerVars,
                   workerVars, queueVars>>

\* tasks.py:166-176: the call is over, its locals are gone.
pool_end(w) ==
    /\ pool[w].pc = "done"
    /\ pool' = [pool EXCEPT ![w] = NoLocals]
    /\ UNCHANGED <<WEBHOOK_SECRET, verifierVars, ingressVars, brokerVars,
                   workerVars, queueVars>>

NextPool ==
    \E w \in Workers :
        \/ pool_start(w)
        \/ pool_token(w)
        \/ pool_list(w)
        \/ pool_filter(w)
        \/ pool_fetch(w)
        \/ pool_agent(w)
        \/ pool_aggregate(w)
        \/ pool_post(w)
        \/ pool_end(w)
SpecPool == InitTasks /\ [][NextPool]_vars

\* --------------------------------------------------------------------- claims
Range(q) == {q[k] : k \in 1..Len(q)}
Recognized == {"opened", "synchronize"}

\* The request being served is an authenticated, well-formed event.
Authenticated == checked = "Ok" /\ parsed /\ req.body.json

\* C1: a request whose header is 'sha256=' followed by the HMAC-SHA256 hex
\* digest of the exact body under the configured secret is accepted; one whose
\* digest was computed under another secret or over another body is rejected
\* with 403 -- by github_utils.validate_signature and by main's own copy.
C1_SignatureDecides ==
    (verdict # "none" /\ WEBHOOK_SECRET # "") =>
        \A s \in Secrets, b \in Bodies :
            vin.header = SignedHeader("sha256", s, b) =>
                IF s = WEBHOOK_SECRET /\ b = vin.body
                THEN verdict = "Ok" /\ verdict_main = "Ok"
                ELSE verdict = "Http403" /\ verdict_main = "Http403"

C1_Witness ==
    /\ WEBHOOK_SECRET # ""
    /\ vin.header = SignedHeader("sha256", WEBHOOK_SECRET, vin.body)
    /\ verdict = "Ok"
    /\ verdict_main = "Ok"

\* The header carries a '<scheme>=' prefix.
HasScheme(h) == \E k \in 1..Len(h) : h[k] = Eq

\* C2 (as claimed): verification fails with Unauthenticated, HTTP 403, when
\* the header is absent, when it lacks the '<scheme>=' prefix, and when the
\* secret is unset.
C2_FailsWith403 ==
    (verdict # "none"
        /\ (vin.header = None \/ ~HasScheme(vin.header) \/ WEBHOOK_SECRET = ""))
    => (verdict = "Http403" /\ verdict_main = "Http403")

\* C3 (as claimed): an authenticated event with a recognized action is
\* answered 'queued' with exactly one job enqueued, and no token exchange,
\* fetch, analysis or write-back is made within the request.
C3_EnqueuesAndReturns ==
    (Authenticated /\ req.body.action \in Recognized /\ req.body.complete) =>
        /\ calls = NoCalls
        /\ ipc = "done" => (resp = "queued" /\ Len(queue) = 1)

\* C4 (as claimed): whatever the downstream steps do, the caller of an
\* authenticated, well-formed event sees 'queued', 'ignored' or 403.
C4_ThreeOutcomes ==
    (ipc = "done" /\ Authenticated
        /\ (req.body.action \in Recognized => req.body.complete))
    => resp \in {"queued", "ignored", "403"}

\* C5: an authenticated event whose action is not recognized is answered
\* 'ignored', enqueues nothing and causes no outbound call.
C5_UnrecognizedIgnored ==
    (Authenticated /\ req.body.action \notin Recognized) =>
        /\ ipc = "done"
        /\ resp = "ignored"
        /\ queue = <<>>
        /\ calls = NoCalls

C5_Witness ==
    /\ Authenticated
    /\ req.body.action = "closed"
    /\ resp = "ignored"

\* C6: verification comes first: the body is parsed, and calls are made,
\* only for a request that passed it; a request that failed it is answered
\* with an error at once, unparsed, with nothing enqueued and no call made.
C6_VerifyBeforeAll ==
    /\ (parsed \/ calls # NoCalls \/ queue # <<>>) => checked = "Ok"
    /\ ipc \in {"json", "token", "diff", "agent", "post"} => checked = "Ok"
    /\ checked \notin {"none", "Ok"} =>
          /\ ipc = "done"
          /\ resp \in {"403", "500"}

C6_Witness ==
    /\ checked = "Http403"
    /\ req.body.json /\ req.body.action = "opened" /\ req.body.complete
    /\ ipc = "done"
    /\ resp = "403"

\* C7 (as claimed): a credential request made while the token last obtained
\* for that installation has more than the safety margin left issues no
\* exchange call.
C7_NoRedundantExchange ==
    [][(handed'.n = handed.n + 1
          /\ issued[handed'.inst] - now > SafetyMargin)
       => exchanges' = exchanges]_vars

\* The allow-list of source extensions, and a path's extension: the part
\* from its last dot on.
AllowedExtensions ==
    { <<".", "p", "y">>, <<".", "j", "s">>, <<".", "t", "s">>,
      <<".", "t", "s", "x">>, <<".", "g", "o">>,
      <<".", "j", "a", "v", "a">>, <<".", "c", "p", "p">> }
Dots(name) == {k \in 1..Len(name) : name[k] = "."}
PathExtension(name) ==
    IF Dots(name) = {} THEN <<>>
    ELSE LET d == CHOOSE k \in Dots(name) : \A j \in Dots(name) : j <= k
         IN SubSeq(name, d, Len(name))
Included(file_data) ==
    /\ file_data.status # "removed"
    /\ PathExtension(file_data.filename) \in AllowedExtensions

\* C8: the filter excludes the files with status 'removed' and those whose
\* path extension is not in the allow-list, and includes all others; content
\* is fetched only for included files and analysis is run only on fetched
\* ones.
C8_FilterExact ==
    /\ \A i \in Range(fetched) : Included(files[i])
    /\ Range(analysed) \subseteq Range(fetched)
    /\ \A i \in 1..Len(files) :
          i < idx => (Included(files[i]) <=> i \in Range(fetched))

C8_Witness ==
    /\ wpc = "done"
    /\ Len(files) = 2
    /\ files[1].status = "removed" /\ files[1].filename = app_py
    /\ files[2].status = "renamed" /\ files[2].filename = b_tsx
    /\ fetched = <<2>>
    /\ analysed = <<2>>

\* The loop over the listed files has run to its end.
Visited == wpc \in {"aggregate", "post"}
              \/ (wpc = "done" /\ outcome \notin {"raised:token", "raised:list"})

\* C9: a failed content fetch or a failed analysis of one file adds nothing
\* to the accumulator and does not stop the loop: every listed file is still
\* visited, every file that was fetched and analysed contributes its issues,
\* and the task raises only for a token, listing or write-back failure.
C9_PerFileIsolation ==
    /\ outcome \in {"none", "returned", "raised:token", "raised:list",
                    "raised:post"}
    /\ Visited => (idx = Len(files) + 1 /\ Len(trail) = Len(files))
    /\ \A i \in 1..Len(trail) :
          /\ trail[i] = "fetch_failed" => (i \in Range(fetched) /\ i \notin Range(analysed))
          /\ trail[i] \in {"analysed", "analysis_failed"} => i \in Range(analysed)
    /\ \A k \in 1..Len(all_issues) :
          \E i \in 1..Len(trail) :
              trail[i] = "analysed" /\ all_issues[k].file_path = files[i].filename
    /\ files_analyzed = Cardinality({i \in 1..Len(trail) : trail[i] = "analysed"})

C9_Witness ==
    /\ wpc = "done"
    /\ outcome = "returned"
    /\ Len(files) = 2
    /\ trail = <<"fetch_failed", "analysed">>
    /\ Len(all_issues) = 1
    /\ posts # <<>>

\* C10: when every file has been visited and nothing was found, the task
\* returns normally and no review was posted; a review is posted only when
\* something was found.
C10_CleanNoWriteBack ==
    /\ posts # <<>> => all_issues # <<>>
    /\ (wpc = "done" /\ Visited /\ all_issues = <<>>) =>
          (outcome = "returned" /\ posts = <<>>)

C10_Witness ==
    /\ wpc = "done"
    /\ outcome = "returned"
    /\ analysed # <<>>
    /\ all_issues = <<>>
    /\ posts = <<>>

\* C11: when findings were accumulated, the attempt sends exactly one review,
\* and only after every listed file has been processed; the review sent
\* carries a comment for every accumulated finding.
C11_OneWriteBack ==
    /\ Len(posts) <= 1
    /\ posts # <<>> =>
          /\ idx = Len(files) + 1
          /\ Len(trail) = Len(files)
          /\ all_issues # <<>>
          /\ Len(posts[1].payload.comments) = Len(all_issues)
          /\ \A k \in 1..Len(all_issues) :
                \E c \in Range(posts[1].payload.comments) :
                    /\ c.path = all_issues[k].file_path
                    /\ c.line = all_issues[k].line_number
    /\ (wpc = "done" /\ Visited /\ all_issues # <<>>) => Len(posts) = 1

C11_Witness ==
    /\ wpc = "done"
    /\ Len(files) = 2
    /\ trail = <<"analysed", "analysed">>
    /\ Len(all_issues) = 3
    /\ Len(posts) = 1
    /\ posts[1].reply = "2xx"

\* C12 (as claimed): an attempt whose review got a non-success reply from the
\* reviews endpoint ends as a failure: it raises, and does not return as
\* after a successful post.
C12_FailedWriteBackRaises ==
    (wpc = "done" /\ posts # <<>> /\ posts[Len(posts)].reply # "2xx") =>
        outcome = "raised:post"

\* C13: the review has one inline comment per accumulated finding, the k-th
\* comment carrying the k-th finding's path and line; and findings are
\* accumulated in file processing order, then in the order the agent
\* returned them for a file: what a file contributes is appended.
C13_CommentsInOrder ==
    [][/\ posts' # posts /\ posts' # <<>> =>
             LET inline == posts'[Len(posts')].payload.comments
             IN /\ Len(inline) = Len(all_issues)
                /\ \A k \in 1..Len(all_issues) :
                      /\ inline[k].path = all_issues[k].file_path
                      /\ inline[k].line = all_issues[k].line_number
       /\ wpc \in {"loop", "fetch", "aggregate", "post"} =>
             all_issues' = all_issues
       /\ wpc = "agent" =>
             \E n \in 0..(Len(all_issues') - Len(all_issues)) :
                 all_issues' = all_issues \o
                     [k \in 1..n |-> Issue(files[idx].filename, k)]
      ]_vars

C13_Witness ==
    /\ Len(files) = 2
    /\ files[1].filename = b_tsx
    /\ files[2].filename = app_py
    /\ all_issues = <<Issue(b_tsx, 1), Issue(b_tsx, 2), Issue(app_py, 1)>>
    /\ posts # <<>>
    /\ posts[1].payload.comments[1].path = b_tsx
    /\ posts[1].payload.comments[3].path = app_py

\* C14: the summary of a posted review reads 'Analyzed N files. Found M
\* issues.' with N the number of files fetched and analysed with success,
\* those without findings included, and M the number of accumulated findings
\* and of inline comments; for the one file app.py with one Bug at line 12 it
\* reads 'Analyzed 1 files. Found 1 issues.' and the one inline comment is at
\* app.py, line 12.
C14_SummaryCounts ==
    \A p \in Range(posts) :
        /\ p.payload.body.summary =
              <<"Analyzed ",
                Cardinality({i \in 1..Len(trail) : trail[i] = "analysed"}),
                " files. Found ", Len(all_issues), " issues.">>
        /\ Len(p.payload.comments) = Len(all_issues)
        /\ (Len(files) = 1 /\ files[1].filename = app_py
               /\ Len(all_issues) = 1 /\ all_issues[1].issue_type = "Bug"
               /\ all_issues[1].line_number = 12) =>
              /\ p.payload.body.summary =
                    <<"Analyzed ", 1, " files. Found ", 1, " issues.">>
              /\ Len(p.payload.comments) = 1
              /\ p.payload.comments[1].path = app_py
              /\ p.payload.comments[1].line = 12

C14_Witness ==
    /\ Len(files) = 1
    /\ files[1].filename = app_py
    /\ Len(all_issues) = 1
    /\ all_issues[1].issue_type = "Bug"
    /\ all_issues[1].line_number = 12
    /\ posts # <<>>
    /\ posts[1].payload.body.summary =
          <<"Analyzed ", 1, " files. Found ", 1, " issues.">>

C16_FatalIsRetried ==
    \A j \in Jobs :
        (task_state[j] = "FAILURE" /\ broker[j] = "acked") => attempts[j] > 1

C18_FatalBeforeFiles ==
    /\ (wpc # "token" /\ handed.n = 1 /\ handed.exp = 0) =>
          (wpc = "done" /\ outcome = "raised:token")
    /\ (wpc = "done" /\ token # NoToken /\ idx = 0) => outcome = "raised:list"
    /\ outcome \in {"raised:token", "raised:list"} =>
          /\ wpc = "done"
          /\ fetched = <<>>
          /\ analysed = <<>>
          /\ all_issues = <<>>
          /\ posts = <<>>

C18_Witness ==
    /\ wpc = "done"
    /\ handed.n = 1
    /\ handed.exp = 0
    /\ outcome = "raised:token"
    /\ fetched = <<>>
    /\ posts = <<>>

\* C19: with several workers at work at once, on different jobs or on copies
\* of the same job, each attempt's accumulator is exactly what its own
\* analysis calls returned, its count is the number of those calls, every
\* finding is about a file of its own listing, and the review it posts is
\* built from its own accumulator and count.
C19_NothingShared ==
    \A w \in Workers :
        /\ pool[w].all_issues = Flatten(pool[w].own)
        /\ pool[w].files_analyzed = Len(pool[w].own)
        /\ \A k \in 1..Len(pool[w].all_issues) :
              /\ pool[w].all_issues[k].suggestion = <<"fix", w, pool[w].job>>
              /\ \E i \in 1..Len(pool[w].files) :
                    pool[w].files[i].filename = pool[w].all_issues[k].file_path
        /\ pool[w].review # <<>> =>
              /\ pool[w].review[1].findings = Flatten(pool[w].own)
              /\ pool[w].review[1].analyzed = Len(pool[w].own)

C19_Witness ==
    /\ pool["w1"].review # <<>>
    /\ pool["w1"].files # pool["w2"].files
    /\ pool["w2"].pc = "loop"
    /\ pool["w2"].all_issues # <<>>
    /\ pool["w1"].job = pool["w2"].job

\* The order of the positions of _analyze_pr_async.
Pos(pc) ==
    CASE pc = "idle" -> 0
      [] pc = "token" -> 1
      [] pc = "list" -> 2
      [] pc = "loop" -> 3
      [] pc = "fetch" -> 4
      [] pc = "agent" -> 5
      [] pc = "aggregate" -> 6
      [] pc = "post" -> 7
      [] pc = "done" -> 8

\* The three ways an attempt ends.
CleanSuccess == outcome = "returned" /\ all_issues = <<>> /\ posts = <<>>
Posted == outcome = "returned" /\ all_issues # <<>> /\ Len(posts) = 1
FailureRaised ==
    outcome \in {"raised:token", "raised:list", "raised:post"}

\* One step of an attempt goes forward: to a later position, or to the loop
\* head with the next file; a file is fetched and analysed at most once; and
\* the attempt ends in exactly one of the three ways.
C20_Forward ==
    /\ wpc \notin {"idle", "done"} =>
          \/ Pos(wpc') > Pos(wpc) /\ idx' >= idx
          \/ /\ wpc \in {"loop", "fetch", "agent"}
             /\ wpc' = "loop"
             /\ idx <= Len(files)
             /\ idx' = idx + 1
    /\ (fetched' # fetched /\ wpc # "done") =>
          (fetched' = Append(fetched, idx) /\ idx \notin Range(fetched))
    /\ (analysed' # analysed /\ wpc # "done") =>
          (analysed' = Append(analysed, idx) /\ idx \notin Range(analysed))
    /\ (wpc # "done" /\ wpc' = "done") =>
          Cardinality({t \in {"clean", "posted", "failed"} :
                          \/ t = "clean" /\ CleanSuccess'
                          \/ t = "posted" /\ Posted'
                          \/ t = "failed" /\ FailureRaised'}) = 1

\* C20: every attempt terminates: a delivered task reaches its end, by steps
\* that only go forward, visiting each listed file at most once, and ends as
\* a clean success, a posted review or a failure raised out of the task.
C20_Terminates ==
    /\ (wpc = "token") ~> (wpc = "done")
    /\ [][C20_Forward]_vars

C20_Witness ==
    /\ wpc = "done"
    /\ Posted
    /\ Len(files) = 2
    /\ files[1].status = "removed"
    /\ trail = <<"skipped", "analysed">>
    /\ fetched = <<2>>

=============================================================================
